---- MODULE Spec2Model ----
(***************************************************************************)
(* Incremental change-detection and synchronisation engine of the flight   *)
(* price pipeline: IncrementalDataLoader (dags/utils/incremental_loader.py)*)
(* driven by transfer_to_postgres_incremental (dags/flight_pipeline_dag.py)*)
(*                                                                         *)
(* The target store is PostgreSQL reached through psycopg2.  An apply      *)
(* operation runs in one explicit transaction: its statements act on a     *)
(* private working copy (txTable, txMeta) that becomes visible only by     *)
(* conn.commit().  A statement that the server rejects puts the open       *)
(* transaction into the aborted state; conn.commit() on an aborted         *)
(* transaction does not raise, the server answers the COMMIT with a        *)
(* ROLLBACK.  A dropped connection (process killed) discards the           *)
(* transaction.  TRUNCATE is transactional.                                *)
(***************************************************************************)
EXTENDS Integers, Sequences, FiniteSets, TLC

\* ------------------------------------------------------------------ bounds
\* Number of task executions (runs, retries included) explored.
MaxRuns == 2
\* Largest number of rows of one staging snapshot.
MaxIncoming == 4

\* ------------------------------------------------------- program constants
\* insert_chunk_size (500 in the source) scaled down so that a snapshot within
\* MaxIncoming is written by more than one INSERT statement.
insert_chunk_size == 2
\* FULL_LOAD_THRESHOLD = 50.0 (percent)
FULL_LOAD_THRESHOLD == 50

\* ------------------------------------------------------------ fingerprint
\* The eight covered identity fields, in the order of the key_fields list.
key_fields ==
    << "airline", "source_code", "destination_code", "departure_datetime",
       "base_fare_bdt", "total_fare_bdt", "travel_class", "booking_source" >>

\* A cell of a DataFrame row: a Python value with its type.  v is the text
\* that str() gives for the value.
Text(s) == [ t |-> "str", v |-> s ]

Float(s) == [ t |-> "float", v |-> s ]

None == [ t |-> "NoneType", v |-> "None" ]

\* str(value)
Str(cell) == cell.v

\* str(row.get(f, '')): a label the row does not carry gives the empty text.
FieldText(row, f) == IF f \in DOMAIN row THEN Str(row[f]) ELSE ""

RECURSIVE Join(_, _)
\* sep.join(parts)
Join(parts, sep) ==
    IF parts = << >> THEN ""
    ELSE IF Len(parts) = 1 THEN parts[1]
    ELSE parts[1] \o sep \o Join(Tail(parts), sep)

\* hashlib.md5(s.encode()).hexdigest(), taken as collision free: the digest
\* of a text is a value that determines the text.
md5(s) == << "md5", s >>

\* A fingerprint that also takes in the staging id of the row.
calculate_record_hash_with_id(row) ==
    md5(Join([i \in 1..Len(key_fields) |-> FieldText(row, key_fields[i])]
                \o << FieldText(row, "mysql_validated_id") >>, "|"))

\* A fingerprint taken over the first covered field alone.
calculate_record_hash_first_field(row) == md5(FieldText(row, key_fields[1]))

calculate_record_hash(row) ==
    md5(Join([i \in 1..Len(key_fields) |-> FieldText(row, key_fields[i])], "|"))

\* ------------------------------------------------------ staging snapshots
Flight(airline, fare, id) ==
    [ airline |-> Text(airline), source_code |-> Text("DAC"),
      destination_code |-> Text("CGP"),
      departure_datetime |-> Text("2025-01-01 10:00:00"),
      base_fare_bdt |-> Float(fare), total_fare_bdt |-> Float(fare),
      travel_class |-> Text("Economy"), booking_source |-> Text("Online"),
      mysql_validated_id |-> Text(id) ]

\* Rows of validated_flight_data the staging store may hold.  The second row
\* repeats the identity fields of the first under another staging id.
StagingRows ==
    << Flight("Biman", "5000.0", "1"), Flight("Biman", "5000.0", "2"),
       Flight("Novoair", "5000.0", "3"), Flight("Biman", "6500.0", "4"),
       Flight("US-Bangla", "7000.0", "5") >>

\* A snapshot: the valid staging rows of one extraction, in staging-id order.
Snapshots ==
    { [i \in 1..Len(ix) |-> StagingRows[ix[i]]] :
        ix \in { s \in UNION { [1..n -> 1..Len(StagingRows)] : n \in 0..MaxIncoming } :
                    \A i \in DOMAIN s : \A j \in DOMAIN s : i < j => s[i] < s[j] } }

\* ------------------------------------------------------------------ state
VARIABLES
    table,        \* bronze.validated_flights, committed rows in physical order
    metadata,     \* bronze.data_load_metadata, committed LoadEvents
    tx,           \* transaction of the apply connection: "none", "open", "aborted"
    txTable,      \* working copy of table inside the transaction
    txMeta,       \* working copy of metadata inside the transaction
    pc,           \* position of the transfer task
    clock,        \* number of runs started; datetime.now() of a run
    df_new,       \* rows read from staging (record_hash added by detect_changes)
    existing_df,  \* record_hash column of the active rows detect_changes read
    changes,      \* result of detect_changes
    load_stats,   \* loader.load_stats
    load_type,    \* strategy of the run: "NONE", "FULL", "INCREMENTAL"
    offset,       \* loop variable i of the chunked insert
    outcome,      \* how the last run ended: "none", "running", "success", "failed", "killed"
    xcom,         \* values pushed to XCom by the last successful run
    preTable,     \* table when the run started
    preMeta,      \* metadata when the run started
    prevDf,       \* snapshot of the preceding run if that run's commit published it, else empty
    readFailed,   \* the active-row query of this run raised
    stmtFailed,   \* a statement of the apply operation of this run raised
    audit,        \* the INSERT INTO data_load_metadata of this run: "none", "written", "failed"
    commitDone,   \* conn.commit() of this run returned
    conn,         \* connection of the apply operation: "none", "open", "closed", "dropped"
    cursor,       \* cursor of the apply operation: "none", "open", "closed", "dropped"
    applyExit,    \* how the apply operation of this run was left: step and result
    frame,        \* a DataFrame handed to the fingerprint column computation
    hashed,       \* its record_hash column once computed, else empty
    staging,      \* valid staging rows of the current DAG run
    ti,           \* state of the task instances of the current DAG run
    ran,          \* task ids of the current DAG run in the order they were executed
    try_number,   \* attempts of the transfer task recorded in the current DAG run
    recorded,     \* clock of the last transfer attempt the scheduler has recorded
    touched,      \* an attempt of the current DAG run committed a change of the table
    returned,     \* XCom return_value of the two decision tasks
    mail          \* the completion email of the current DAG run

vars == << table, metadata, tx, txTable, txMeta, pc, clock, df_new, existing_df,
           changes, load_stats, load_type, offset, outcome, xcom, preTable,
           preMeta, prevDf, readFailed, stmtFailed, audit, commitDone, conn,
           cursor, applyExit, frame, hashed, staging, ti, ran, try_number, recorded,
           touched, returned, mail >>

\* The variables of the loader and of the transfer task.
loaderVars ==
    << table, metadata, tx, txTable, txMeta, pc, clock, df_new, existing_df,
       changes, load_stats, load_type, offset, outcome, xcom, preTable, preMeta,
       prevDf, readFailed, stmtFailed, audit, commitDone, conn, cursor, applyExit >>

\* The variables of the DAG run around the transfer task.
dagVars == << staging, ti, ran, try_number, recorded, touched, returned, mail >>

\* ---------------------------------------------------------------- helpers
Hashes(rows) == { rows[i].record_hash : i \in DOMAIN rows }

ActiveRows(tbl) == SelectSeq(tbl, LAMBDA r : r.is_active)

ActiveHashes(tbl) == Hashes(ActiveRows(tbl))

\* change_percentage as an exact fraction num/den (percent).
Pct(num, den) == [ num |-> num, den |-> den ]

PctGreater(p, threshold) == p.num > threshold * p.den

EmptyChanges ==
    [ new_records |-> << >>, deleted_records |-> << >>,
      unchanged_records |-> << >>, change_percentage |-> Pct(0, 1) ]

NoStats == [ new |-> 0, updated |-> 0, deleted |-> 0, unchanged |-> 0 ]

NoExit == [ step |-> "none", result |-> "none" ]

NoXCom == [ load_type |-> "NONE", records_inserted |-> 0, records_deleted |-> 0,
            change_percentage |-> Pct(0, 1), active_records |-> 0 ]


\* ------------------------------------------------------- detect_changes
\* new_df['record_hash'] = new_df.apply(self.calculate_record_hash, axis=1)
WithHash(df) ==
    [ i \in 1..Len(df) |->
        [ rec |-> df[i], record_hash |-> calculate_record_hash(df[i]) ] ]

\* Rows returned by the active-row query: the stored fingerprints of the rows
\* with is_active = TRUE (the other selected columns are not used).
load_existing_data_from_postgres(tbl) ==
    [ i \in 1..Len(ActiveRows(tbl)) |->
        [ record_hash |-> ActiveRows(tbl)[i].record_hash ] ]

\* df[df['record_hash'].isin(hs)]
IsIn(df, hs) == SelectSeq(df, LAMBDA r : r.record_hash \in hs)

\* A classification that takes every stored fingerprint as deleted.
detect_changes_deleted_all(new_df, existing) ==
    IF existing = << >>
    THEN [ new_records |-> new_df, deleted_records |-> << >>,
           unchanged_records |-> << >>, change_percentage |-> Pct(100, 1) ]
    ELSE LET existing_hashes == Hashes(existing)
             new_hashes == Hashes(new_df)
             new_records == IsIn(new_df, new_hashes \ existing_hashes)
             deleted_records == IsIn(existing, existing_hashes)
             unchanged_records == IsIn(new_df, existing_hashes \cap new_hashes)
             total_changes == Len(new_records) + Len(deleted_records)
         IN  [ new_records |-> new_records, deleted_records |-> deleted_records,
               unchanged_records |-> unchanged_records,
               change_percentage |->
                   IF Len(new_df) > 0 THEN Pct(total_changes * 100, Len(new_df))
                   ELSE Pct(0, 1) ]

\* A classification whose ratio is taken over the number of active rows read.
detect_changes_over_existing(new_df, existing) ==
    IF existing = << >>
    THEN [ new_records |-> new_df, deleted_records |-> << >>,
           unchanged_records |-> << >>, change_percentage |-> Pct(100, 1) ]
    ELSE LET existing_hashes == Hashes(existing)
             new_hashes == Hashes(new_df)
             new_records == IsIn(new_df, new_hashes \ existing_hashes)
             deleted_records == IsIn(existing, existing_hashes \ new_hashes)
             unchanged_records == IsIn(new_df, existing_hashes \cap new_hashes)
             total_changes == Len(new_records) + Len(deleted_records)
         IN  [ new_records |-> new_records, deleted_records |-> deleted_records,
               unchanged_records |-> unchanged_records,
               change_percentage |-> Pct(total_changes * 100, Len(existing)) ]

\* The classification of detect_changes for the hashed snapshot new_df and the
\* active rows read (existing): first-load branch, then the set arithmetic.
detect_changes(new_df, existing) ==
    IF existing = << >>
    THEN [ new_records |-> new_df, deleted_records |-> << >>,
           unchanged_records |-> << >>, change_percentage |-> Pct(100, 1) ]
    ELSE LET existing_hashes == Hashes(existing)
             new_hashes == Hashes(new_df)
             new_records == IsIn(new_df, new_hashes \ existing_hashes)
             deleted_records == IsIn(existing, existing_hashes \ new_hashes)
             unchanged_records == IsIn(new_df, existing_hashes \cap new_hashes)
             total_changes == Len(new_records) + Len(deleted_records)
         IN  [ new_records |-> new_records, deleted_records |-> deleted_records,
               unchanged_records |-> unchanged_records,
               change_percentage |->
                   IF Len(new_df) > 0 THEN Pct(total_changes * 100, Len(new_df))
                   ELSE Pct(0, 1) ]

\* self.load_stats after detect_changes: the first-load branch returns before
\* the statistics are updated.
StatsAfterDetect(stats, ch, existing) ==
    IF existing = << >> THEN stats
    ELSE [ stats EXCEPT !.new = Len(ch.new_records),
                        !.deleted = Len(ch.deleted_records),
                        !.unchanged = Len(ch.unchanged_records) ]

\* A choice that takes the full load already at the threshold.
SelectStrategyAtThreshold(change_percentage) ==
    IF change_percentage.num >= FULL_LOAD_THRESHOLD * change_percentage.den
    THEN "FULL" ELSE "INCREMENTAL"

\* change_percentage > FULL_LOAD_THRESHOLD selects the full load.
SelectStrategy(change_percentage) ==
    IF PctGreater(change_percentage, FULL_LOAD_THRESHOLD) THEN "FULL"
    ELSE "INCREMENTAL"

\* ---------------------------------------------------- statements of apply
\* INSERT INTO bronze.validated_flights ... VALUES (one tuple per chunk row):
\* the rows are appended with ingestion_timestamp = now and is_active = TRUE.
InsertRows(tbl, chunk, now) ==
    tbl \o [ i \in 1..Len(chunk) |->
               [ rec |-> chunk[i].rec, record_hash |-> chunk[i].record_hash,
                 is_active |-> TRUE, ingestion_timestamp |-> now ] ]

\* new_data.iloc[i:i + insert_chunk_size]
Chunk(df, i) ==
    SubSeq(df, i + 1, IF i + insert_chunk_size < Len(df) THEN i + insert_chunk_size
                      ELSE Len(df))

\* A removal that deletes the rows instead of deactivating them.
SoftDeleteRemovesRows(tbl, deleted_hashes, now) ==
    SelectSeq(tbl, LAMBDA r : ~(r.record_hash \in deleted_hashes /\ r.is_active))

\* UPDATE bronze.validated_flights SET is_active = FALSE, ingestion_timestamp = now
\* WHERE record_hash IN (deleted_hashes) AND is_active = TRUE
SoftDelete(tbl, deleted_hashes, now) ==
    [ i \in 1..Len(tbl) |->
        IF tbl[i].record_hash \in deleted_hashes /\ tbl[i].is_active
        THEN [ tbl[i] EXCEPT !.is_active = FALSE, !.ingestion_timestamp = now ]
        ELSE tbl[i] ]

\* TRUNCATE TABLE bronze.validated_flights RESTART IDENTITY
Truncate(tbl) == << >>

\* The LoadEvent written by apply_incremental_load.
IncrementalEvent(stats, ltype, ch, now) ==
    [ records_inserted |-> stats.new, records_updated |-> stats.updated,
      records_deleted |-> stats.deleted, records_unchanged |-> stats.unchanged,
      load_type |-> ltype, change_percentage |-> ch.change_percentage,
      load_timestamp |-> now ]

\* The LoadEvent written by apply_full_load: four columns are given.
FullEvent(df_copy, now) ==
    [ records_inserted |-> Len(df_copy), load_type |-> "FULL",
      change_percentage |-> Pct(100, 1), load_timestamp |-> now ]

\* An audit INSERT that replaces the events already in the log.
RecordEventKeepsLatest(meta, ev) == << ev >>

\* INSERT INTO bronze.data_load_metadata: one row is added to the audit log.
RecordEvent(meta, ev) == Append(meta, ev)

\* A finally block that leaves the handle as it is.
CloseSkipped(handle) == handle

\* cursor.close() and conn.close() of the finally block.
Close(handle) == "closed"

\* A rollback that leaves the writes of the transaction in the table.
RollbackKeepsWrites(committed, working) == working

\* conn.rollback() in the except branch (and the server's rollback when the
\* connection is dropped): the committed rows stay as they were.
Rollback(committed, working) == committed

\* conn.commit(): an open transaction publishes its working copy; the COMMIT of
\* an aborted transaction is answered with a rollback and raises nothing.
Commit(state, committed, working) ==
    IF state = "open" THEN working ELSE committed


\* ---------------------------------------------------------- DAG structure
\* default_args['retries']
retries == 2

\* MIN_CHANGE_THRESHOLD = 0.1 (percent) of decide_processing
MIN_CHANGE_THRESHOLD == Pct(1, 10)

\* Upstream task ids of every task from the transfer task on.  The tasks before
\* it (start mail, extraction, CSV load, validation) are a plain chain.
Upstream ==
    [ transfer_to_postgres_incremental |-> { },
      decide_processing |-> { "transfer_to_postgres_incremental" },
      notify_change_detection |-> { "decide_processing" },
      dbt_run_silver |-> { "notify_change_detection" },
      dbt_snapshot |-> { "dbt_run_silver" },
      dbt_run_gold |-> { "dbt_snapshot" },
      dbt_run_tests |-> { "dbt_run_gold" },
      decide_model_retraining |-> { "dbt_run_tests" },
      retrain_model |-> { "decide_model_retraining" },
      skip_retraining |-> { "decide_model_retraining" },
      retraining_complete |-> { "retrain_model", "skip_retraining" },
      skip_processing |-> { "decide_processing" },
      notify_pipeline_completion |-> { "retraining_complete", "skip_processing" } ]

Tasks == DOMAIN Upstream

\* Every task under the default trigger rule.
trigger_rule_default(t) == "all_success"

trigger_rule(t) ==
    IF t \in { "retraining_complete", "notify_pipeline_completion" }
    THEN "none_failed_min_one_success" ELSE "all_success"

NoReturn == [ decide_processing |-> "none", decide_model_retraining |-> "none" ]

NoMail == [ sent |-> FALSE, processing_skipped |-> FALSE, consulted |-> FALSE,
            model_retrained |-> FALSE, subject |-> "none" ]

\* No DAG run has been triggered.
NoDagRun ==
    /\ staging = << >>
    /\ ti = [ t \in Tasks |-> "none" ]
    /\ ran = << >>
    /\ try_number = 0
    /\ recorded = 0
    /\ touched = FALSE
    /\ returned = NoReturn
    /\ mail = NoMail

\* ------------------------------------------------------------------- Init
\* Both tables exist and are empty; no run has started.
NewLoader ==
    /\ table = << >>
    /\ metadata = << >>
    /\ tx = "none"
    /\ txTable = << >>
    /\ txMeta = << >>
    /\ pc = "idle"
    /\ clock = 0
    /\ df_new = << >>
    /\ existing_df = << >>
    /\ changes = EmptyChanges
    /\ load_stats = NoStats
    /\ load_type = "NONE"
    /\ offset = 0
    /\ outcome = "none"
    /\ xcom = NoXCom
    /\ preTable = << >>
    /\ preMeta = << >>
    /\ prevDf = << >>
    /\ readFailed = FALSE
    /\ stmtFailed = FALSE
    /\ audit = "none"
    /\ commitDone = FALSE
    /\ conn = "none"
    /\ cursor = "none"
    /\ applyExit = NoExit

Init == NewLoader /\ frame = << >> /\ hashed = << >> /\ NoDagRun

\* Rows the chunked insert of the current strategy writes: df_copy (the whole
\* snapshot, hashed again) for FULL, changes['new_records'] for INCREMENTAL.
RowsToInsert ==
    IF load_type = "FULL" THEN WithHash(df_new) ELSE changes.new_records

\* Where apply_incremental_load continues after its insert step.
AfterInsert ==
    IF load_type = "FULL" THEN "audit"
    ELSE IF changes.deleted_records # << >> THEN "softdelete" ELSE "audit"

\* An exception in an apply operation: inside the try block rollback, close and
\* re-raise (get_conn, before the try block, has no transaction to roll back);
\* transfer logs the failure and re-raises to the scheduler.
RaiseInApply ==
    /\ table' = IF tx = "none" THEN table ELSE Rollback(table, txTable)
    /\ metadata' = IF tx = "none" THEN metadata ELSE Rollback(metadata, txMeta)
    /\ tx' = "none"
    /\ txTable' = << >>
    /\ txMeta' = << >>
    /\ pc' = "idle"
    /\ outcome' = "failed"
    /\ stmtFailed' = TRUE
    /\ \E opened \in (IF pc = "begin" THEN BOOLEAN ELSE { TRUE }), rolled \in BOOLEAN :
        IF opened
        THEN /\ conn' = Close("open")
             /\ cursor' = Close("open")
             /\ applyExit' = [ step |-> pc,
                               result |-> IF rolled THEN "rolled_back"
                                          ELSE "rollback_failed" ]
        ELSE /\ applyExit' = [ step |-> pc, result |-> "no_connection" ]
             /\ UNCHANGED << conn, cursor >>
    /\ UNCHANGED << clock, df_new, existing_df, changes, load_stats, load_type,
                    offset, xcom, preTable, preMeta, prevDf, readFailed, audit, commitDone >>

\* ---------------------------------------------------------------- actions
\* A test that never takes the short-circuit.
NeverEmpty(df) == FALSE

\* df_new.empty
EmptySnapshot(df) == df = << >>

\* transfer_to_postgres_incremental up to detect_changes: construct the loader,
\* read the staging snapshot (one of source), short-circuit on an empty one
\* after pushing load_type NONE and zero counts to XCom.
TransferFrom(source) ==
    /\ pc = "idle"
    /\ UNCHANGED << frame, hashed, dagVars >>
    /\ clock < MaxRuns
    /\ \E snapshot \in source, ok \in BOOLEAN :
        /\ clock' = clock + 1
        /\ preTable' = table
        /\ preMeta' = metadata
        /\ prevDf' = IF commitDone /\ audit = "written" THEN df_new ELSE << >>
        /\ existing_df' = << >>
        /\ changes' = EmptyChanges
        /\ load_stats' = NoStats
        /\ load_type' = "NONE"
        /\ offset' = 0
        /\ readFailed' = FALSE
        /\ stmtFailed' = FALSE
        /\ audit' = "none"
        /\ commitDone' = FALSE
        /\ xcom' = NoXCom
        /\ conn' = "none"
        /\ cursor' = "none"
        /\ applyExit' = NoExit
        /\ IF ~ok
           THEN \* load_new_data_from_mysql raised
                /\ df_new' = << >>
                /\ pc' = "idle"
                /\ outcome' = "failed"
           ELSE /\ df_new' = snapshot
                /\ IF EmptySnapshot(snapshot)
                   THEN /\ pc' = "idle"
                        /\ outcome' = "success"
                   ELSE /\ pc' = "detect"
                        /\ outcome' = "running"
        /\ UNCHANGED << table, metadata, tx, txTable, txMeta >>

\* The transfer task starts on a snapshot of the staging rows.
StartTransfer == TransferFrom(Snapshots)

\* detect_changes and the strategy choice of transfer.  A failing active-row
\* query is caught by load_existing_data_from_postgres, which then returns an
\* empty frame.
DetectChanges ==
    /\ pc = "detect"
    /\ UNCHANGED << frame, hashed, dagVars >>
    /\ \E ok \in BOOLEAN :
        LET existing == IF ok THEN load_existing_data_from_postgres(table) ELSE << >>
            ch == detect_changes(WithHash(df_new), existing)
        IN  /\ existing_df' = existing
            /\ readFailed' = ~ok
            /\ changes' = ch
            /\ load_stats' = StatsAfterDetect(load_stats, ch, existing)
            /\ load_type' = SelectStrategy(ch.change_percentage)
    /\ pc' = "begin"
    /\ UNCHANGED << table, metadata, tx, txTable, txMeta, clock, df_new, offset,
                    outcome, xcom, preTable, preMeta, prevDf, stmtFailed, audit,
                    commitDone, conn,
                    cursor, applyExit >>

\* get_conn(), cursor() and BEGIN of the selected apply operation.
Begin ==
    /\ pc = "begin"
    /\ UNCHANGED << frame, hashed, dagVars >>
    /\ \E ok \in BOOLEAN :
        IF ok
        THEN /\ conn' = "open"
             /\ cursor' = "open"
             /\ tx' = "open"
             /\ txTable' = table
             /\ txMeta' = metadata
             /\ offset' = 0
             /\ pc' = IF load_type = "FULL" THEN "truncate"
                      ELSE IF changes.new_records # << >> THEN "insert"
                      ELSE AfterInsert
             /\ UNCHANGED << table, metadata, clock, df_new, existing_df, changes,
                             load_stats, load_type, outcome, xcom, preTable, preMeta, prevDf,
                             readFailed, stmtFailed, audit, commitDone, applyExit >>
        ELSE RaiseInApply

\* apply_full_load step 1: TRUNCATE inside the transaction.
TruncateTable ==
    /\ pc = "truncate"
    /\ UNCHANGED << frame, hashed, dagVars >>
    /\ \E ok \in BOOLEAN :
        IF ok
        THEN /\ txTable' = Truncate(txTable)
             /\ pc' = "insert"
             /\ UNCHANGED << table, metadata, tx, txMeta, clock, df_new, existing_df,
                             changes, load_stats, load_type, offset, outcome, xcom,
                             preTable, preMeta, prevDf, readFailed, stmtFailed, audit,
                             commitDone, conn,
                    cursor, applyExit >>
        ELSE RaiseInApply

\* A chunk loop on an autocommit connection: every INSERT statement is
\* published as soon as it has run.
InsertChunkAutocommit ==
    /\ pc = "insert"
    /\ UNCHANGED << frame, hashed, dagVars >>
    /\ \E ok \in BOOLEAN :
        IF ok
        THEN /\ txTable' = InsertRows(txTable, Chunk(RowsToInsert, offset), clock)
             /\ table' = txTable'
             /\ offset' = offset + insert_chunk_size
             /\ pc' = IF offset + insert_chunk_size < Len(RowsToInsert) THEN "insert"
                      ELSE AfterInsert
             /\ UNCHANGED << metadata, tx, txMeta, clock, df_new, existing_df,
                             changes, load_stats, load_type, outcome, xcom, preTable,
                             preMeta, prevDf, readFailed, stmtFailed, audit, commitDone, conn,
                    cursor, applyExit >>
        ELSE RaiseInApply

\* One pass of the chunk loop of either apply operation: one INSERT statement.
InsertChunk ==
    /\ pc = "insert"
    /\ UNCHANGED << frame, hashed, dagVars >>
    /\ \E ok \in BOOLEAN :
        IF ok
        THEN /\ txTable' = InsertRows(txTable, Chunk(RowsToInsert, offset), clock)
             /\ offset' = offset + insert_chunk_size
             /\ pc' = IF offset + insert_chunk_size < Len(RowsToInsert) THEN "insert"
                      ELSE AfterInsert
             /\ UNCHANGED << table, metadata, tx, txMeta, clock, df_new, existing_df,
                             changes, load_stats, load_type, outcome, xcom, preTable,
                             preMeta, prevDf, readFailed, stmtFailed, audit, commitDone, conn,
                    cursor, applyExit >>
        ELSE RaiseInApply

\* apply_incremental_load step 2: the set-based UPDATE by fingerprint list.
SoftDeleteRows ==
    /\ pc = "softdelete"
    /\ UNCHANGED << frame, hashed, dagVars >>
    /\ \E ok \in BOOLEAN :
        IF ok
        THEN /\ txTable' = SoftDelete(txTable, Hashes(changes.deleted_records), clock)
             /\ pc' = "audit"
             /\ UNCHANGED << table, metadata, tx, txMeta, clock, df_new, existing_df,
                             changes, load_stats, load_type, offset, outcome, xcom,
                             preTable, preMeta, prevDf, readFailed, stmtFailed, audit,
                             commitDone, conn,
                    cursor, applyExit >>
        ELSE RaiseInApply

\* The metadata INSERT, in the same transaction.  Its exception is caught and
\* logged as a warning; the rejected statement leaves the transaction aborted.
LogMetadata ==
    /\ pc = "audit"
    /\ UNCHANGED << frame, hashed, dagVars >>
    /\ \E ok \in BOOLEAN :
        IF ok
        THEN /\ txMeta' = RecordEvent(txMeta,
                    IF load_type = "FULL" THEN FullEvent(WithHash(df_new), clock)
                    ELSE IncrementalEvent(load_stats, load_type, changes, clock))
             /\ audit' = "written"
             /\ UNCHANGED << tx, stmtFailed >>
        ELSE /\ tx' = "aborted"
             /\ audit' = "failed"
             /\ stmtFailed' = TRUE
             /\ UNCHANGED txMeta
    /\ pc' = "commit"
    /\ UNCHANGED << table, metadata, txTable, clock, df_new, existing_df, changes,
                    load_stats, load_type, offset, outcome, xcom, preTable, preMeta, prevDf,
                    readFailed, commitDone, conn,
                    cursor, applyExit >>

\* conn.commit(), then the finally block; the apply operation returns.
CommitTx ==
    /\ pc = "commit"
    /\ UNCHANGED << frame, hashed, dagVars >>
    /\ \E ok \in BOOLEAN :
        IF ok
        THEN /\ table' = Commit(tx, table, txTable)
             /\ metadata' = Commit(tx, metadata, txMeta)
             /\ tx' = "none"
             /\ txTable' = << >>
             /\ txMeta' = << >>
             /\ commitDone' = TRUE
             /\ conn' = Close(conn)
             /\ cursor' = Close(cursor)
             /\ applyExit' = [ step |-> pc, result |-> "committed" ]
             /\ pc' = "verify"
             /\ UNCHANGED << clock, df_new, existing_df, changes, load_stats,
                             load_type, offset, outcome, xcom, preTable, preMeta, prevDf,
                             readFailed, stmtFailed, audit >>
        ELSE RaiseInApply

\* transfer after the apply operation returned: the verification count, the
\* statistics query, the XCom pushes and the return.
Verify ==
    /\ pc = "verify"
    /\ UNCHANGED << frame, hashed, dagVars >>
    /\ \E ok \in BOOLEAN :
        IF ok
        THEN /\ xcom' = [ load_type |-> load_type,
                          records_inserted |-> load_stats.new,
                          records_deleted |-> load_stats.deleted,
                          change_percentage |-> changes.change_percentage,
                          active_records |-> Len(ActiveRows(table)) ]
             /\ outcome' = "success"
        ELSE /\ outcome' = "failed"
             /\ UNCHANGED xcom
    /\ pc' = "idle"
    /\ UNCHANGED << table, metadata, tx, txTable, txMeta, clock, df_new, existing_df,
                    changes, load_stats, load_type, offset, preTable, preMeta, prevDf,
                    readFailed, stmtFailed, audit, commitDone, conn,
                    cursor, applyExit >>

\* The task process is killed (execution timeout, cancellation): the
\* connection is dropped and the server discards an unfinished transaction.
Kill ==
    /\ pc # "idle"
    /\ UNCHANGED << frame, hashed, dagVars >>
    /\ table' = IF tx = "none" THEN table ELSE Rollback(table, txTable)
    /\ metadata' = IF tx = "none" THEN metadata ELSE Rollback(metadata, txMeta)
    /\ tx' = "none"
    /\ txTable' = << >>
    /\ txMeta' = << >>
    /\ pc' = "idle"
    /\ outcome' = "killed"
    /\ conn' = IF conn = "open" THEN "dropped" ELSE conn
    /\ cursor' = IF cursor = "open" THEN "dropped" ELSE cursor
    /\ UNCHANGED << clock, df_new, existing_df, changes, load_stats, load_type,
                    offset, xcom, preTable, preMeta, prevDf, readFailed, stmtFailed, audit,
                    commitDone, applyExit >>

Next ==
    \/ StartTransfer
    \/ DetectChanges
    \/ Begin
    \/ TruncateTable
    \/ InsertChunk
    \/ SoftDeleteRows
    \/ LogMetadata
    \/ CommitTx
    \/ Verify
    \/ Kill

Spec == Init /\ [][Next]_vars

\* ------------------------------------------------- the mixed-change scenario
\* Records r1..r4 of the scenario; r1m is r1 with a modified price.
r1 == Flight("Biman", "5000.0", "1")

r1m == [ r1 EXCEPT !.total_fare_bdt = Float("5500.0") ]

r2 == Flight("Novoair", "5000.0", "3")

r3 == Flight("US-Bangla", "7000.0", "5")

r4 == Flight("Air Astra", "6000.0", "6")

\* Snapshots of the scenario: the first load, the mixed change, and a snapshot
\* that only drops a record.
ScenarioSnapshots == { << r1, r2, r3 >>, << r1m, r3, r4 >>, << r1, r2 >> }

ScenarioStart == TransferFrom(ScenarioSnapshots)

NextScenario ==
    \/ ScenarioStart
    \/ DetectChanges
    \/ Begin
    \/ TruncateTable
    \/ InsertChunk
    \/ SoftDeleteRows
    \/ LogMetadata
    \/ CommitTx
    \/ Verify
    \/ Kill

\* The transfer task run on the scenario's snapshots only.
SpecScenario == Init /\ [][NextScenario]_vars


\* ------------------------------------------- the fingerprint column alone
\* Marks, in the choice of a cell, a label that the row does not carry.
Absent == [ t |-> "absent", v |-> "" ]

\* Cells tried for the airline and source_code labels of a row.
CellChoices ==
    { Text("A"), Text("B"), Text("A|B"), Text("B|A"), Text(""), Text("None"),
      None, Absent }

Reverse(seq) == [ i \in 1..Len(seq) |-> seq[Len(seq) + 1 - i] ]

\* The (label, cell) items of a row in the order the row presents them.
Items(airline, source_code, id) ==
    SelectSeq(<< << "airline", airline >>, << "source_code", source_code >>,
                 << "destination_code", Text("CGP") >>,
                 << "departure_datetime", Text("2025-01-01 10:00:00") >>,
                 << "base_fare_bdt", Float("5000.0") >>,
                 << "total_fare_bdt", Float("5000.0") >>,
                 << "travel_class", Text("Economy") >>,
                 << "booking_source", Text("Online") >>,
                 << "mysql_validated_id", Text(id) >> >>,
              LAMBDA item : item[2] # Absent)

\* pd.Series: the row as a lookup from label to cell.
Series(items) ==
    [ label \in { items[i][1] : i \in DOMAIN items } |->
        items[CHOOSE i \in DOMAIN items : items[i][1] = label][2] ]

\* Frames of two rows; the rows have different staging ids and positions, and
\* the second row presents its labels in either order.
Frames ==
    { << Items(a1, s1, "1"),
         IF reversed THEN Reverse(Items(a2, s2, "2")) ELSE Items(a2, s2, "2") >> :
        a1 \in CellChoices, s1 \in CellChoices, a2 \in CellChoices,
        s2 \in CellChoices, reversed \in BOOLEAN }

InitFingerprint == NewLoader /\ frame \in Frames /\ hashed = << >> /\ NoDagRun

\* new_df['record_hash'] = new_df.apply(self.calculate_record_hash, axis=1)
ApplyRecordHash ==
    /\ frame # << >>
    /\ hashed = << >>
    /\ hashed' = [ i \in DOMAIN frame |-> calculate_record_hash(Series(frame[i])) ]
    /\ UNCHANGED << table, metadata, tx, txTable, txMeta, pc, clock, df_new,
                    existing_df, changes, load_stats, load_type, offset, outcome, xcom,
                    preTable, preMeta, prevDf, readFailed, stmtFailed, audit,
                    commitDone, conn, cursor, applyExit, frame, dagVars >>

NextFingerprint == ApplyRecordHash

\* The fingerprint column computed for any one of the frames.
SpecFingerprint == InitFingerprint /\ [][NextFingerprint]_vars


\* ---------------------------------------------------------------- DAG run
Terminal == { "success", "failed", "skipped", "upstream_failed" }

DagRunActive == ti["transfer_to_postgres_incremental"] # "none"

DagRunFinished == \A t \in Tasks : ti[t] \in Terminal

\* What the trigger rule of task t gives once its upstream tasks are done.
Verdict(t) ==
    LET up == { ti[u] : u \in Upstream[t] }
    IN  IF up \cap { "failed", "upstream_failed" } # { } THEN "upstream_failed"
        ELSE IF trigger_rule(t) = "all_success"
             THEN IF "skipped" \in up THEN "skipped" ELSE "run"
             ELSE IF "success" \in up THEN "run" ELSE "skipped"

Ready(t) ==
    /\ DagRunActive
    /\ ti[t] = "none"
    /\ \A u \in Upstream[t] : ti[u] \in Terminal

Runnable(t) == Ready(t) /\ Verdict(t) = "run"

\* Staging contents of the DAG runs explored.
DagSnapshots == ScenarioSnapshots \cup { << >> }

\* A DAG run is triggered; the tasks before the transfer task have filled the
\* staging store.
TriggerDag ==
    /\ pc = "idle"
    /\ recorded = clock
    /\ clock < MaxRuns
    /\ ~DagRunActive \/ DagRunFinished
    /\ \E snapshot \in DagSnapshots : staging' = snapshot
    /\ ti' = [ t \in Tasks |->
                IF t = "transfer_to_postgres_incremental" THEN "scheduled" ELSE "none" ]
    /\ ran' = << >>
    /\ try_number' = 0
    /\ touched' = FALSE
    /\ returned' = NoReturn
    /\ mail' = NoMail
    /\ UNCHANGED << loaderVars, frame, hashed, recorded >>

\* An attempt of the transfer task starts on the staging rows of the DAG run.
RunTransfer ==
    /\ ti["transfer_to_postgres_incremental"] = "scheduled"
    /\ recorded = clock
    /\ TransferFrom({ staging })

\* The scheduler records the end of an attempt of the transfer task: success,
\* another try while retries are left, or failure.
TransferDone ==
    /\ pc = "idle"
    /\ recorded # clock
    /\ ti["transfer_to_postgres_incremental"] = "scheduled"
    /\ recorded' = clock
    /\ try_number' = try_number + 1
    /\ touched' = (touched \/ table # preTable)
    /\ ti' = [ ti EXCEPT !["transfer_to_postgres_incremental"] =
                  IF outcome = "success" THEN "success"
                  ELSE IF try_number + 1 <= retries THEN "scheduled" ELSE "failed" ]
    /\ ran' = Append(ran, "transfer_to_postgres_incremental")
    /\ UNCHANGED << loaderVars, frame, hashed, staging, returned, mail >>

\* The scheduler settles a task that its trigger rule does not let run.
Schedule ==
    /\ \E t \in Tasks :
        /\ Ready(t)
        /\ Verdict(t) # "run"
        /\ ti' = [ ti EXCEPT ![t] = Verdict(t) ]
    /\ UNCHANGED << loaderVars, frame, hashed, staging, ran, try_number, recorded,
                    touched, returned, mail >>

\* The decision of decide_processing from the XCom values of the transfer task;
\* an exception raised while deciding or while recording the decision is
\* caught and answered with skip_processing.
decide_processing(x, raised) ==
    IF raised THEN "skip_processing"
    ELSE IF x.load_type = "FULL" THEN "notify_change_detection"
    ELSE IF x.change_percentage.num * MIN_CHANGE_THRESHOLD.den
               >= MIN_CHANGE_THRESHOLD.num * x.change_percentage.den
         THEN "notify_change_detection"
    ELSE IF x.records_inserted + x.records_deleted > 0 THEN "notify_change_detection"
    ELSE "skip_processing"

\* decide_processing, a BranchPythonOperator: the direct downstream task it
\* did not return is skipped. The task fails only when the handler of a
\* caught exception fails to record the failure.
DecideProcessing ==
    /\ Runnable("decide_processing")
    /\ \E raised \in BOOLEAN, ok \in BOOLEAN :
        IF ok
        THEN /\ ti' = [ t \in Tasks |->
                        IF t = "decide_processing" THEN "success"
                        ELSE IF "decide_processing" \in Upstream[t]
                                /\ t # decide_processing(xcom, raised)
                             THEN "skipped"
                        ELSE ti[t] ]
             /\ returned' = [ returned EXCEPT
                                !.decide_processing = decide_processing(xcom, raised) ]
        ELSE /\ ti' = [ ti EXCEPT !["decide_processing"] = "failed" ]
             /\ UNCHANGED returned
    /\ ran' = Append(ran, "decide_processing")
    /\ UNCHANGED << loaderVars, frame, hashed, staging, try_number, recorded, touched,
                    mail >>

\* Tasks whose callable takes no part in the control flow.
PlainTasks ==
    { "notify_change_detection", "dbt_run_silver", "dbt_snapshot", "dbt_run_gold",
      "dbt_run_tests", "retrain_model", "skip_retraining", "retraining_complete",
      "skip_processing" }

\* A PythonOperator task whose trigger rule is met runs and succeeds or fails.
RunTask ==
    /\ \E t \in PlainTasks, ok \in BOOLEAN :
        /\ Runnable(t)
        /\ ti' = [ ti EXCEPT ![t] = IF ok THEN "success" ELSE "failed" ]
        /\ ran' = Append(ran, t)
    /\ UNCHANGED << loaderVars, frame, hashed, staging, try_number, recorded, touched,
                    returned, mail >>

\* The decision of decide_model_retraining: current_model is "absent", "fresh"
\* or "old" (30 days or more); an exception gives 'skip'.
decide_model_retraining(x, current_model, raised) ==
    IF raised THEN "skip"
    ELSE IF current_model = "absent" THEN "retrain"
    ELSE IF \/ x.change_percentage.num >= 5 * x.change_percentage.den
            \/ x.records_inserted >= 1000
            \/ current_model = "old"
            \/ x.load_type = "FULL"
         THEN "retrain"
    ELSE "skip"

\* decide_model_retraining, a PythonOperator: its return value goes to XCom
\* and both downstream tasks stay eligible.
DecideModelRetraining ==
    /\ Runnable("decide_model_retraining")
    /\ \E current_model \in { "absent", "fresh", "old" }, raised \in BOOLEAN :
        returned' = [ returned EXCEPT !.decide_model_retraining =
                        decide_model_retraining(xcom, current_model, raised) ]
    /\ ti' = [ ti EXCEPT !["decide_model_retraining"] = "success" ]
    /\ ran' = Append(ran, "decide_model_retraining")
    /\ UNCHANGED << loaderVars, frame, hashed, staging, try_number, recorded, touched,
                    mail >>

\* send_completion_email: a failing send_email is caught and logged.
SendCompletionEmail ==
    /\ Runnable("notify_pipeline_completion")
    /\ \E delivered \in BOOLEAN :
        LET processing_skipped == returned.decide_processing = "skip"
        IN  mail' = [ sent |-> delivered,
                      processing_skipped |-> processing_skipped,
                      consulted |-> ~processing_skipped,
                      model_retrained |->
                          IF ~processing_skipped
                          THEN returned.decide_model_retraining = "retrain"
                          ELSE FALSE,
                      subject |-> IF processing_skipped THEN "No Processing Needed"
                                  ELSE "Completed Successfully" ]
    /\ ti' = [ ti EXCEPT !["notify_pipeline_completion"] = "success" ]
    /\ ran' = Append(ran, "notify_pipeline_completion")
    /\ UNCHANGED << loaderVars, frame, hashed, staging, try_number, recorded, touched,
                    returned >>

NextDag ==
    \/ TriggerDag
    \/ RunTransfer
    \/ DetectChanges
    \/ Begin
    \/ TruncateTable
    \/ InsertChunk
    \/ SoftDeleteRows
    \/ LogMetadata
    \/ CommitTx
    \/ Verify
    \/ Kill
    \/ TransferDone
    \/ Schedule
    \/ DecideProcessing
    \/ RunTask
    \/ DecideModelRetraining
    \/ SendCompletionEmail

\* DAG runs of the pipeline from the transfer task on.
SpecDag == Init /\ [][NextDag]_vars


\* ================================================================== claims
\* The rows the data statements of the run's apply operation produce from the
\* pre-run table, taken as a whole.
ExpectedAfterApply ==
    IF load_type = "FULL" THEN InsertRows(<< >>, WithHash(df_new), clock)
    ELSE SoftDelete(InsertRows(preTable, changes.new_records, clock),
                    Hashes(changes.deleted_records), clock)

\* Every apply operation whose metadata INSERT was accepted and whose commit
\* returned has published exactly the effect of its data statements.
LoggedApplyPublishes ==
    (commitDone /\ audit = "written") => table = ExpectedAfterApply

\* C1: after a transfer run on a non-empty snapshot that ended successfully,
\* the fingerprints of the active rows are the fingerprints of the snapshot.
C1_ActiveEqualsIncoming ==
    (pc = "idle" /\ outcome = "success" /\ df_new # << >>)
        => ActiveHashes(table) = Hashes(WithHash(df_new))

\* C1 restricted to runs whose metadata INSERT was accepted.
C1_WhenLogged ==
    (pc = "idle" /\ outcome = "success" /\ df_new # << >> /\ audit = "written")
        => ActiveHashes(table) = Hashes(WithHash(df_new))

\* C2: once a statement of the apply operation has failed, or the run was
\* killed before its commit returned, the table and the audit log are what they
\* were when the run started.
C2_FailedRunLeavesStore ==
    (stmtFailed \/ (outcome = "killed" /\ ~commitDone))
        => (table = preTable /\ metadata = preMeta)

\* C2 witness: a full load on a non-empty table failed in a later insert chunk,
\* after the TRUNCATE and the first chunk.
C2_Witness ==
    /\ pc = "idle" /\ outcome = "failed" /\ stmtFailed
    /\ load_type = "FULL" /\ audit = "none"
    /\ offset >= insert_chunk_size /\ offset < Len(df_new)
    /\ preTable # << >>

\* C3: no two active rows of the table carry the same fingerprint.
C3_OneActivePerFingerprint ==
    \A i \in DOMAIN table : \A j \in DOMAIN table :
        (table[i].is_active /\ table[j].is_active
            /\ table[i].record_hash = table[j].record_hash) => i = j

\* A step keeps every stored row in place; a row changes at most by its active
\* flag going from true to false (with the timestamp of the deactivation).
RowsPersist ==
    /\ Len(table') >= Len(table)
    /\ \A i \in DOMAIN table :
        \/ table'[i] = table[i]
        \/ /\ table[i].is_active /\ ~table'[i].is_active
           /\ table'[i].rec = table[i].rec
           /\ table'[i].record_hash = table[i].record_hash

\* C4 as stated: no step of any run removes a stored row.
C4_RowsNeverRemoved == [][RowsPersist]_vars

\* C4 amended: every step of a run that is not a full load keeps the stored
\* rows; the commit of a full load leaves only rows written by that run.
C4_OnlyFullLoadRemoves ==
    [][ /\ load_type # "FULL" => RowsPersist
        /\ (load_type = "FULL" /\ table' # table)
              => \A i \in DOMAIN table' : table'[i].ingestion_timestamp = clock ]_vars

\* C4 witness: an incremental load has committed an insert and a deactivation
\* on top of earlier rows.
C4_Witness ==
    /\ pc = "verify" /\ load_type = "INCREMENTAL" /\ audit = "written"
    /\ Len(table) > Len(preTable)
    /\ \E i \in DOMAIN preTable : preTable[i].is_active /\ ~table[i].is_active

\* C5: when apply_incremental_load has returned, |New| rows were added, all
\* active, |Deleted| active rows became inactive, and unchanged and inactive
\* rows are as before.
C5_IncrementalEffect ==
    (pc = "verify" /\ load_type = "INCREMENTAL") =>
        /\ Len(table) = Len(preTable) + Len(changes.new_records)
        /\ \A i \in (Len(preTable) + 1)..Len(table) : table[i].is_active
        /\ Cardinality({ i \in DOMAIN preTable :
                            preTable[i].is_active /\ ~table[i].is_active })
              = Len(changes.deleted_records)
        /\ \A i \in DOMAIN preTable :
              (~preTable[i].is_active
                 \/ preTable[i].record_hash \in Hashes(changes.unchanged_records))
                => table[i] = preTable[i]

\* C6: when apply_full_load has returned, the table holds one active row per
\* snapshot row, with that row's fingerprint, and nothing else.
C6_FullLoadResult ==
    (pc = "verify" /\ load_type = "FULL") =>
        /\ Len(table) = Len(df_new)
        /\ \A i \in DOMAIN table :
              /\ table[i].rec = df_new[i]
              /\ table[i].record_hash = calculate_record_hash(df_new[i])
              /\ table[i].is_active

\* C5 and C6 restricted to apply operations whose metadata INSERT was accepted.
C5_WhenLogged == audit = "written" => C5_IncrementalEffect

C6_WhenLogged == audit = "written" => C6_FullLoadResult

\* C7: for a non-empty set of active rows read, New, Deleted and Unchanged are
\* pairwise disjoint by fingerprint, New and Unchanged cover the snapshot and
\* Deleted and Unchanged cover the active rows read.
C7_ChangeSetPartition ==
    existing_df # << >> =>
        LET N == Hashes(changes.new_records)
            D == Hashes(changes.deleted_records)
            U == Hashes(changes.unchanged_records)
        IN  /\ N \cap D = {} /\ N \cap U = {} /\ D \cap U = {}
            /\ N \cup U = Hashes(WithHash(df_new))
            /\ D \cup U = Hashes(existing_df)
            /\ D \cup U = ActiveHashes(preTable)

\* C7 witness: a detection in which all three classes are inhabited.
C7_Witness ==
    /\ existing_df # << >>
    /\ changes.new_records # << >>
    /\ changes.deleted_records # << >>
    /\ changes.unchanged_records # << >>

\* C8: a run whose active-row query failed while the table held active rows
\* ends as a failure and leaves the table as it was.
C8_ReadFailureSurfaced ==
    (pc = "idle" /\ readFailed /\ ActiveRows(preTable) # << >>)
        => (outcome # "success" /\ table = preTable)

\* C9: the LoadEvent of a run is not written before the commit of the run's
\* data changes has returned.
C9_AuditAfterCommit == audit = "written" => commitDone

\* C10: when the metadata INSERT failed after all data statements succeeded
\* and the apply operation returned, the data changes are in the table.
C10_AuditFailureKeepsData ==
    (commitDone /\ audit = "failed") => table = ExpectedAfterApply


\* C11: a run on the snapshot that the preceding run published classifies
\* every row as unchanged, with ratio 0, selects INCREMENTAL and leaves the
\* rows of the table as they were.
C11_RepeatIsNoOp ==
    (prevDf # << >> /\ df_new = prevDf /\ load_type # "NONE") =>
        /\ changes.new_records = << >>
        /\ changes.deleted_records = << >>
        /\ changes.unchanged_records = WithHash(df_new)
        /\ changes.change_percentage.num = 0
        /\ load_type = "INCREMENTAL"
        /\ table = preTable

\* C11 restricted to repeated runs whose active-row query succeeded.
C11_WhenRead == ~readFailed => C11_RepeatIsNoOp


\* C12: once a strategy is chosen it is FULL exactly when the change ratio is
\* strictly above 50 percent, and INCREMENTAL otherwise.
C12_StrategyBoundary ==
    load_type # "NONE" =>
        LET p == changes.change_percentage
        IN  /\ load_type = "FULL" <=> p.num > 50 * p.den
            /\ load_type = "INCREMENTAL" <=> p.num <= 50 * p.den

\* C12 witness: a detection whose ratio is exactly 50 percent took the
\* incremental path.
C12_Witness ==
    /\ load_type = "INCREMENTAL"
    /\ changes.change_percentage.num = 50 * changes.change_percentage.den
    /\ pc = "verify"


\* C13 as stated: for non-empty active rows read and a non-empty snapshot the
\* ratio is 100 * (|New| + |Deleted|) / |snapshot| with New and Deleted counted
\* by distinct fingerprint.
C13_RatioByFingerprint ==
    (existing_df # << >> /\ df_new # << >>) =>
        LET p == changes.change_percentage
        IN  p.num * Len(df_new) =
              100 * (Cardinality(Hashes(changes.new_records))
                       + Cardinality(Hashes(changes.deleted_records))) * p.den

\* C13 amended: the same ratio with New and Deleted counted by rows.
C13_RatioByRows ==
    (existing_df # << >> /\ df_new # << >>) =>
        LET p == changes.change_percentage
        IN  p.num * Len(df_new) =
              100 * (Len(changes.new_records) + Len(changes.deleted_records)) * p.den

\* C13 witness: a detection with deleted rows and two new rows of one
\* fingerprint.
C13_Witness ==
    /\ existing_df # << >>
    /\ changes.deleted_records # << >>
    /\ Len(changes.new_records) > Cardinality(Hashes(changes.new_records))


\* C14: with no active row in the table and a non-empty snapshot, detection
\* takes the whole snapshot as New with nothing Deleted or Unchanged and ratio
\* 100, the full load is chosen, and a run that ends successfully leaves as many
\* active rows as the snapshot has rows.
C14_FirstLoad ==
    (ActiveRows(preTable) = << >> /\ df_new # << >> /\ load_type # "NONE") =>
        /\ changes.new_records = WithHash(df_new)
        /\ changes.deleted_records = << >>
        /\ changes.unchanged_records = << >>
        /\ changes.change_percentage = Pct(100, 1)
        /\ load_type = "FULL"
        /\ (pc = "idle" /\ outcome = "success")
              => Len(ActiveRows(table)) = Len(df_new)

\* C14 restricted to runs whose metadata INSERT was not rejected.
C14_WhenLogged == audit # "failed" => C14_FirstLoad


\* C15: a run on an empty snapshot ends at once: ratio 0 and zero counts are
\* reported, no apply operation has acted, table and audit log are unchanged.
C15_EmptySnapshot ==
    (pc = "idle" /\ outcome = "success" /\ df_new = << >>) =>
        /\ xcom.load_type = "NONE"
        /\ xcom.change_percentage.num = 0
        /\ xcom.records_inserted = 0 /\ xcom.records_deleted = 0
        /\ load_stats = NoStats
        /\ changes = EmptyChanges
        /\ audit = "none" /\ ~commitDone /\ ~stmtFailed
        /\ table = preTable /\ metadata = preMeta

\* C15 witness: an empty snapshot arrived while the table held active rows.
C15_Witness ==
    /\ pc = "idle" /\ outcome = "success" /\ df_new = << >>
    /\ ActiveRows(table) # << >>


\* The state of the mixed-change scenario after detection: the active rows
\* read are r1, r2, r3 and the snapshot is r1 with a modified price, r3, r4.
ScenarioDetected ==
    /\ Hashes(existing_df) = { calculate_record_hash(r1), calculate_record_hash(r2),
                               calculate_record_hash(r3) }
    /\ df_new = << r1m, r3, r4 >>

\* C16 as stated: in the scenario New = {r1', r4}, Deleted = {r2},
\* Unchanged = {r3} and the ratio is 100 percent.
C16_ScenarioAsStated ==
    ScenarioDetected =>
        /\ Hashes(changes.new_records)
              = { calculate_record_hash(r1m), calculate_record_hash(r4) }
        /\ Hashes(changes.deleted_records) = { calculate_record_hash(r2) }
        /\ Hashes(changes.unchanged_records) = { calculate_record_hash(r3) }
        /\ changes.change_percentage.num = 100 * changes.change_percentage.den

\* C16 amended: in the scenario New = {r1', r4}, Deleted = {r1, r2},
\* Unchanged = {r3} and the ratio is 400/3 percent.
C16_ScenarioDeletedBoth ==
    ScenarioDetected =>
        /\ Hashes(changes.new_records)
              = { calculate_record_hash(r1m), calculate_record_hash(r4) }
        /\ Len(changes.new_records) = 2
        /\ Hashes(changes.deleted_records)
              = { calculate_record_hash(r1), calculate_record_hash(r2) }
        /\ Len(changes.deleted_records) = 2
        /\ Hashes(changes.unchanged_records) = { calculate_record_hash(r3) }
        /\ Len(changes.unchanged_records) = 1
        /\ 3 * changes.change_percentage.num = 400 * changes.change_percentage.den

\* C16 witness: the scenario's detection has happened.
C16_Witness == ScenarioDetected /\ pc = "begin"

\* C17: after a successful run on a non-empty store that selected the FULL
\* path, the active rows are exactly the incoming records, and every row that
\* was active before the run and whose fingerprint is absent from the snapshot
\* is still in the store with is_active false.
C17_FullLoadKeepsHistory ==
    (pc = "idle" /\ outcome = "success" /\ load_type = "FULL" /\ existing_df # << >>) =>
        /\ ActiveRows(table) = InsertRows(<< >>, WithHash(df_new), clock)
        /\ \A i \in DOMAIN preTable :
              (preTable[i].is_active
                  /\ preTable[i].record_hash \notin Hashes(WithHash(df_new)))
              => \E j \in DOMAIN table :
                    /\ table[j].record_hash = preTable[i].record_hash
                    /\ ~table[j].is_active

\* The step in which the transaction of an apply operation commits.
ApplyCommits == pc = "commit" /\ pc' = "verify" /\ tx = "open"

\* C18: the step in which the transaction of an apply operation commits adds
\* exactly one LoadEvent to the audit log, every other step leaves the log as
\* it is, and the events written earlier stay in place unmodified.
C18_AuditAppendOnly ==
    [][ /\ Len(metadata') >= Len(metadata)
        /\ SubSeq(metadata', 1, Len(metadata)) = metadata
        /\ ApplyCommits => Len(metadata') = Len(metadata) + 1
        /\ ~ApplyCommits => metadata' = metadata ]_vars

\* C18 witness: a FULL run and then an INCREMENTAL run have committed.
C18_Witness ==
    /\ Len(metadata) = 2
    /\ metadata[1].load_type = "FULL"
    /\ metadata[2].load_type = "INCREMENTAL"

\* C19: the LoadEvent of a committed run carries the strategy applied, the
\* inserted, deleted and unchanged counts of the run's ChangeSet and the change
\* ratio that detect_changes computed, for FULL and for INCREMENTAL.
C19_EventMatchesRun ==
    (pc = "verify" /\ Len(metadata) = Len(preMeta) + 1) =>
        LET ev == metadata[Len(metadata)]
        IN  /\ ev.load_type = load_type
            /\ ev.records_inserted = Len(changes.new_records)
            /\ "records_deleted" \in DOMAIN ev
            /\ ev.records_deleted = Len(changes.deleted_records)
            /\ "records_unchanged" \in DOMAIN ev
            /\ ev.records_unchanged = Len(changes.unchanged_records)
            /\ ev.change_percentage.num * changes.change_percentage.den
                  = changes.change_percentage.num * ev.change_percentage.den

\* C20: after any statement of the apply phase has raised, the transaction
\* is rolled back and the run has ended in failure without reaching
\* verification, statistics or the success report.
C20_AnyFailureReraised ==
    stmtFailed =>
        /\ pc = "idle" /\ outcome = "failed"
        /\ tx = "none" /\ table = preTable /\ metadata = preMeta
        /\ xcom = NoXCom

\* C20 restricted to failures of BEGIN, the data statements and the commit.
C20_DataFailureReraised == audit # "failed" => C20_AnyFailureReraised

\* C21: the committed table, which is what a concurrent read-only query
\* returns, is the complete pre-run state until the single commit of the run
\* and from then on the complete post-run state (or still the pre-run state when
\* the commit published nothing); no state holds only some of the run's writes.
C21_AtomicVisibility ==
    /\ ~commitDone => table = preTable
    /\ commitDone => (table = preTable \/ table = ExpectedAfterApply)

\* C21 witness: a FULL load on a non-empty store has truncated and written its
\* first chunk and has a further chunk to write.
C21_Witness ==
    /\ pc = "insert" /\ tx = "open" /\ load_type = "FULL"
    /\ offset >= insert_chunk_size /\ offset < Len(RowsToInsert)
    /\ preTable # << >> /\ txTable # table

\* C22: whenever an apply operation is not in progress (it has returned after
\* its commit, raised after a rollback or a failed rollback, or was never
\* reached), neither its connection nor its cursor is open.
C22_HandlesClosed ==
    pc \in { "idle", "detect", "begin", "verify" } =>
        (conn # "open" /\ cursor # "open")

\* C22 witness: the commit raised, the rollback in the except branch raised as
\* well, and both handles are closed.
C22_Witness ==
    /\ applyExit = [ step |-> "commit", result |-> "rollback_failed" ]
    /\ conn = "closed" /\ cursor = "closed"

\* The value a row has for a covered field, Absent when it has none.
CoveredValue(row, f) == IF f \in DOMAIN row THEN row[f] ELSE Absent

DifferInCovered(a, b) ==
    \E i \in DOMAIN key_fields :
        CoveredValue(a, key_fields[i]) # CoveredValue(b, key_fields[i])

\* Texts of the cell choices that do not contain the delimiter.
DelimiterFree == { "A", "B", "", "None" }

\* Every covered field of the row is present, is text or a number, and is
\* free of the delimiter.
PlainCovered(row) ==
    \A i \in DOMAIN key_fields :
        /\ key_fields[i] \in DOMAIN row
        /\ row[key_fields[i]].t \in { "str", "float" }
        /\ (key_fields[i] \in { "airline", "source_code" }
               => row[key_fields[i]].v \in DelimiterFree)

\* C23 as stated: two records that differ in a covered field, whatever the
\* values (with the delimiter, absent, null or empty), get different
\* fingerprints.
C23_DifferenceAlwaysShows ==
    (hashed # << >> /\ DifferInCovered(Series(frame[1]), Series(frame[2])))
        => hashed[1] # hashed[2]

\* C23 amended: two records whose covered fields are all present, not null and
\* free of the delimiter, and that differ in a covered field, get different
\* fingerprints.
C23_PlainDifferenceShows ==
    (/\ hashed # << >>
     /\ PlainCovered(Series(frame[1])) /\ PlainCovered(Series(frame[2]))
     /\ DifferInCovered(Series(frame[1]), Series(frame[2])))
        => hashed[1] # hashed[2]

\* C23 witness: fingerprints were computed for two such records that differ in
\* source_code only, one of them with the empty text.
C23_Witness ==
    /\ hashed # << >>
    /\ PlainCovered(Series(frame[1])) /\ PlainCovered(Series(frame[2]))
    /\ Series(frame[1]).airline = Series(frame[2]).airline
    /\ Series(frame[1]).source_code = Text("")
    /\ Series(frame[2]).source_code = Text("A")

\* C24: two records with equal values in all eight covered fields get the
\* same fingerprint, whatever the order in which a record presents its labels,
\* its position in the frame and the values of its other fields; computing the
\* fingerprint again gives the same value.
C24_SameFieldsSameHash ==
    hashed # << >> =>
        /\ (~DifferInCovered(Series(frame[1]), Series(frame[2]))
               => hashed[1] = hashed[2])
        /\ \A i \in DOMAIN frame :
              hashed[i] = calculate_record_hash(Series(frame[i]))

\* C24 witness: fingerprints were computed for two rows with equal covered
\* values, one of them null, different staging ids and opposite label order.
C24_Witness ==
    /\ hashed # << >>
    /\ ~DifferInCovered(Series(frame[1]), Series(frame[2]))
    /\ CoveredValue(Series(frame[1]), "airline") = None
    /\ Series(frame[1]).mysql_validated_id # Series(frame[2]).mysql_validated_id
    /\ frame[1][1][1] = "airline" /\ frame[2][1][1] = "mysql_validated_id"

\* C25 as stated: for a non-empty snapshot the change ratio computed by
\* detect_changes never exceeds 200 percent.
C25_RatioAtMost200 ==
    (df_new # << >> /\ load_type # "NONE") =>
        changes.change_percentage.num <= 200 * changes.change_percentage.den

\* C25 amended: for a non-empty snapshot the change ratio never exceeds
\* 100 * (|incoming| + |active|) / |incoming| percent, counted in rows.
C25_RatioAtMostAllRows ==
    (df_new # << >> /\ load_type # "NONE") =>
        changes.change_percentage.num * Len(df_new)
            <= 100 * (Len(df_new) + Len(existing_df)) * changes.change_percentage.den

\* C25 witness: a snapshot smaller than the active set shares no fingerprint
\* with it, and the ratio is above 200 percent.
C25_Witness ==
    /\ pc = "begin"
    /\ Len(existing_df) > Len(df_new) /\ df_new # << >>
    /\ changes.unchanged_records = << >>
    /\ changes.change_percentage.num > 200 * changes.change_percentage.den

\* Task t was executed in the current DAG run.
Executed(t) == \E i \in DOMAIN ran : ran[i] = t

\* C26: in a DAG run that took the processing branch, retrain_model is
\* executed only if decide_model_retraining returned 'retrain'; after 'skip'
\* retrain_model is not executed.
C26_RetrainOnlyOnDecision ==
    (returned.decide_processing = "notify_change_detection" /\ Executed("retrain_model"))
        => returned.decide_model_retraining = "retrain"

\* The tasks of the processing branch in the order of their dependencies up
\* to the retraining decision, and the retraining tasks after it.
ProcessingChain ==
    << "notify_change_detection", "dbt_run_silver", "dbt_snapshot", "dbt_run_gold",
       "dbt_run_tests", "decide_model_retraining" >>

RetrainingTasks == { "retrain_model", "skip_retraining", "retraining_complete" }

ProcessingBranch ==
    { ProcessingChain[i] : i \in DOMAIN ProcessingChain } \cup RetrainingTasks

Position(t) == CHOOSE i \in DOMAIN ran : ran[i] = t

ExecutedBefore(t, u) == Executed(t) /\ Executed(u) /\ Position(t) < Position(u)

NoTaskFailed == \A t \in Tasks : ti[t] \notin { "failed", "upstream_failed" }

C28_ChangeIsProcessed ==
    (touched /\ returned.decide_processing # "none")
        => returned.decide_processing = "notify_change_detection"

\* Rows of the table written by the current run: inserted, or deactivated.
InsertedByRun == SelectSeq(table, LAMBDA r : r.ingestion_timestamp = clock /\ r.is_active)

DeactivatedByRun ==
    SelectSeq(table, LAMBDA r : r.ingestion_timestamp = clock /\ ~r.is_active)

\* C29: after a successful transfer run the counts pushed to XCom equal the
\* numbers of rows the run inserted and deactivated, and equal the counts of
\* the run's LoadEvent, for FULL (the first load included) and INCREMENTAL.
C29_PublishedCountsAreActual ==
    (pc = "idle" /\ outcome = "success" /\ df_new # << >>) =>
        /\ xcom.records_inserted = Len(InsertedByRun)
        /\ xcom.records_deleted = Len(DeactivatedByRun)
        /\ Len(metadata) = Len(preMeta) + 1 =>
              /\ metadata[Len(metadata)].records_inserted = xcom.records_inserted
              /\ "records_deleted" \in DOMAIN metadata[Len(metadata)] =>
                    metadata[Len(metadata)].records_deleted = xcom.records_deleted

\* C30: in a DAG run where decide_processing selected skip_processing, the
\* completion email treats processing as skipped: it does not consult the
\* retraining decision, reports the model as not retrained and uses the
\* 'No Processing Needed' subject.
C30_SkipIsReported ==
    (Executed("notify_pipeline_completion")
        /\ returned.decide_processing = "skip_processing") =>
        /\ mail.processing_skipped
        /\ ~mail.consulted
        /\ ~mail.model_retrained
        /\ mail.subject = "No Processing Needed"

====
